---- MODULE Spec2Model ----
(***************************************************************************)
(* NovaSignal: tick aggregation -> Heikin-Ashi smoothing -> indicator bank *)
(* -> confluence decision.                                                 *)
(*                                                                         *)
(* Numbers.  The source computes on IEEE doubles.  Here every price-like   *)
(* quantity is a fixed-point integer counted in units of 1/Scale, and      *)
(* every division is Div, which rounds to the nearest unit.  The RSI is    *)
(* counted in units of 1/RsiScale.  The options "Candle | null" and        *)
(* "AnalysisResult | null" are sequences of length 0 (null) or 1.          *)
(***************************************************************************)
EXTENDS Integers, Sequences, FiniteSets, TLC

\* ------------------------------------------------------------------------
\* Fixed-point arithmetic
\* ------------------------------------------------------------------------

\* units per 1.0 of price
Scale == 10000

\* units per 1.0 of RSI
RsiScale == 100

\* a / b rounded to the nearest integer, b > 0
Div(a, b) == (2 * a + b) \div (2 * b)

Max2(a, b) == IF a >= b THEN a ELSE b

Min2(a, b) == IF a <= b THEN a ELSE b

Max3(a, b, c) == Max2(a, Max2(b, c))

Min3(a, b, c) == Min2(a, Min2(b, c))

Abs(a) == IF a >= 0 THEN a ELSE -a

\* Math.floor(a / b) for b > 0
Floor(a, b) == a \div b

\* the last element of a non-empty sequence
Last(s) == s[Len(s)]

\* the array with the elements f[1], ..., f[n]
ArrayOf(f, n) == SubSeq(f, 1, n)

\* Array.prototype.slice(-n)
SliceLast(s, n) == IF Len(s) <= n THEN s ELSE SubSeq(s, Len(s) - n + 1, Len(s))

\* ------------------------------------------------------------------------
\* types.ts
\* ------------------------------------------------------------------------

CALL == "CALL"

PUT == "PUT"

NEUTRAL == "NEUTRE"

WAITING == "EN ATTENTE"

TradeSignal == {CALL, PUT, NEUTRAL, WAITING}

Candle(t, o, h, l, c) == [time |-> t, open |-> o, high |-> h, low |-> l, close |-> c]

\* PAIRS: id -> streamId
PAIRS == [BTCUSDT |-> "btcusdt", ETHUSDT |-> "ethusdt", GOLDOTC |-> "btcusdt",
          EURCHFOTC |-> "ethusdt", EURUSD |-> "eurusdt", AUDUSD |-> "bnbusdt"]

\* ------------------------------------------------------------------------
\* utils/indicators.ts
\* ------------------------------------------------------------------------

\* the first Heikin-Ashi candle: open, high and low are the raw ones
FirstHa(first) ==
  LET firstHaClose == Div(first.open + first.high + first.low + first.close, 4)
  IN [time |-> first.time, open |-> first.open, high |-> first.high, low |-> first.low,
      close |-> firstHaClose,
      color |-> IF firstHaClose >= first.open THEN "green" ELSE "red",
      hasUpperWick |-> first.high > Max2(first.open, firstHaClose),
      hasLowerWick |-> first.low < Min2(first.open, firstHaClose),
      bodySize |-> Abs(firstHaClose - first.open),
      upperWickSize |-> first.high - Max2(first.open, firstHaClose),
      lowerWickSize |-> Min2(first.open, firstHaClose) - first.low]

\* mutant: the smoothed close is the raw close, not the mean of the four prices
NextHaRawClose(curr, prevHa) ==
  LET haClose == curr.close
      haOpen == Div(prevHa.open + prevHa.close, 2)
      haHigh == Max3(curr.high, haOpen, haClose)
      haLow == Min3(curr.low, haOpen, haClose)
      upperWickSize == haHigh - Max2(haOpen, haClose)
      lowerWickSize == Min2(haOpen, haClose) - haLow
  IN [time |-> curr.time, open |-> haOpen, high |-> haHigh, low |-> haLow,
      close |-> haClose,
      color |-> IF haClose >= haOpen THEN "green" ELSE "red",
      hasUpperWick |-> upperWickSize > 0,
      hasLowerWick |-> lowerWickSize > 0,
      bodySize |-> Abs(haClose - haOpen),
      upperWickSize |-> upperWickSize,
      lowerWickSize |-> lowerWickSize]

\* Heikin-Ashi candle i > 0 from the raw candle and the previous smoothed one
NextHa(curr, prevHa) ==
  LET haClose == Div(curr.open + curr.high + curr.low + curr.close, 4)
      haOpen == Div(prevHa.open + prevHa.close, 2)
      haHigh == Max3(curr.high, haOpen, haClose)
      haLow == Min3(curr.low, haOpen, haClose)
      upperWickSize == haHigh - Max2(haOpen, haClose)
      lowerWickSize == Min2(haOpen, haClose) - haLow
  IN [time |-> curr.time, open |-> haOpen, high |-> haHigh, low |-> haLow,
      close |-> haClose,
      color |-> IF haClose >= haOpen THEN "green" ELSE "red",
      \* the epsilon 0.00001 is below one unit: size > epsilon iff size >= 1
      hasUpperWick |-> upperWickSize > 0,
      hasLowerWick |-> lowerWickSize > 0,
      bodySize |-> Abs(haClose - haOpen),
      upperWickSize |-> upperWickSize,
      lowerWickSize |-> lowerWickSize]

RECURSIVE HaLoopRaw(_, _)
\* mutant: the previous candle is the raw one, not the smoothed one
HaLoopRaw(candles, haCandles) ==
  IF Len(haCandles) >= Len(candles) THEN haCandles
  ELSE HaLoopRaw(candles,
                 Append(haCandles, NextHa(candles[Len(haCandles) + 1],
                                          FirstHa(candles[Len(haCandles)]))))

RECURSIVE HaLoop(_, _)
\* the for loop; i = haCandles.length (0-based) is the next index
HaLoop(candles, haCandles) ==
  IF Len(haCandles) >= Len(candles) THEN haCandles
  ELSE HaLoop(candles,
              Append(haCandles, NextHa(candles[Len(haCandles) + 1], Last(haCandles))))

calculateHeikinAshi(candles) ==
  IF Len(candles) = 0 THEN <<>>
  ELSE HaLoop(candles, <<FirstHa(candles[1])>>)

RECURSIVE EmaLoop(_, _, _)
\* the for loop; i = emaArray.length (0-based) is the next index and prevEma
\* is the last element pushed
EmaLoop(data, period, emaArray) ==
  IF Len(emaArray) >= Len(data) THEN emaArray
  ELSE LET prevEma == Last(emaArray)
           currentPrice == data[Len(emaArray) + 1]
           \* (currentPrice - prevEma) * k + prevEma, k = 2 / (period + 1)
           newEma == Div((currentPrice - prevEma) * 2, period + 1) + prevEma
       IN EmaLoop(data, period, Append(emaArray, newEma))

\* the seed is data[0]
calculateEMA(data, period) ==
  IF Len(data) = 0 THEN <<>>
  ELSE EmaLoop(data, period, <<data[1]>>)

RECURSIVE RsiSum(_, _)
\* <<gains, losses>> over the transitions i .. Len(closePrices)
RsiSum(closePrices, i) ==
  IF i > Len(closePrices) THEN <<0, 0>>
  ELSE LET change == closePrices[i] - closePrices[i - 1]
           rest == RsiSum(closePrices, i + 1)
       IN IF change >= 0
          THEN <<rest[1] + change, rest[2]>>
          ELSE <<rest[1], rest[2] + Abs(change)>>

\* mutant: no movement at all gives the midpoint
calculateRSIFlat(closePrices, period) ==
  IF Len(closePrices) < 2 THEN 50 * RsiScale
  ELSE LET effectivePeriod == Min2(Len(closePrices) - 1, period)
           gl == RsiSum(closePrices, Len(closePrices) - effectivePeriod + 1)
           avgGain == Div(gl[1], effectivePeriod)
           avgLoss == Div(gl[2], effectivePeriod)
       IN IF avgLoss = 0 THEN (IF avgGain = 0 THEN 50 * RsiScale ELSE 100 * RsiScale)
          ELSE 100 * RsiScale - Div(100 * RsiScale * avgLoss, avgLoss + avgGain)

\* in units of 1/RsiScale
calculateRSI(closePrices, period) ==
  IF Len(closePrices) < 2 THEN 50 * RsiScale
  ELSE LET effectivePeriod == Min2(Len(closePrices) - 1, period)
           gl == RsiSum(closePrices, Len(closePrices) - effectivePeriod + 1)
           avgGain == Div(gl[1], effectivePeriod)
           avgLoss == Div(gl[2], effectivePeriod)
       IN IF avgLoss = 0 THEN 100 * RsiScale
          \* 100 - 100 / (1 + avgGain / avgLoss)
          ELSE 100 * RsiScale - Div(100 * RsiScale * avgLoss, avgLoss + avgGain)

\* mutant: the histogram is the signal line minus the MACD line
calculateMACDReversed(data, fastPeriod, slowPeriod, signalPeriod) ==
  LET fastEMA == calculateEMA(data, fastPeriod)
      slowEMA == calculateEMA(data, slowPeriod)
      macdLine == ArrayOf([i \in 1..Len(data) |-> fastEMA[i] - slowEMA[i]], Len(data))
      signalLine == calculateEMA(macdLine, signalPeriod)
      currentMACD == Last(macdLine)
      currentSignal == Last(signalLine)
  IN [value |-> currentMACD, signal |-> currentSignal,
      histogram |-> currentSignal - currentMACD]

calculateMACD(data, fastPeriod, slowPeriod, signalPeriod) ==
  LET fastEMA == calculateEMA(data, fastPeriod)
      slowEMA == calculateEMA(data, slowPeriod)
      macdLine == ArrayOf([i \in 1..Len(data) |-> fastEMA[i] - slowEMA[i]], Len(data))
      signalLine == calculateEMA(macdLine, signalPeriod)
      currentMACD == Last(macdLine)
      currentSignal == Last(signalLine)
  IN [value |-> currentMACD, signal |-> currentSignal,
      histogram |-> currentMACD - currentSignal]

\* True Range of candle i against the close of candle i - 1
TrueRange(candles, i) ==
  Max3(candles[i].high - candles[i].low,
       Abs(candles[i].high - candles[i - 1].close),
       Abs(candles[i].low - candles[i - 1].close))

RECURSIVE SumSeq(_, _)
\* s.reduce((a, b) => a + b, 0) over the elements from index i on
SumSeq(s, i) == IF i > Len(s) THEN 0 ELSE s[i] + SumSeq(s, i + 1)

calculateSupertrend(candles, period, multiplier) ==
  IF Len(candles) < period + 1 THEN [direction |-> "UP", value |-> 0]
  ELSE LET tr == ArrayOf([j \in 1..(Len(candles) - 1) |-> TrueRange(candles, j + 1)],
                         Len(candles) - 1)
           atr == IF Len(tr) >= period
                  THEN Div(SumSeq(SliceLast(tr, period), 1), period)
                  ELSE Div(SumSeq(tr, 1), Len(tr))
           curr == Last(candles)
           hl2 == Div(curr.high + curr.low, 2)
           basicUpper == hl2 + multiplier * atr
           basicLower == hl2 - multiplier * atr
       IN IF curr.close > basicLower
          THEN [direction |-> "UP", value |-> basicLower]
          ELSE [direction |-> "DOWN", value |-> basicUpper]

\* mutant: the fallback is the waiting state of the consuming layer
ColdStartWaiting ==
  [signal |-> WAITING, confidence |-> 0, rsi |-> 50 * RsiScale, ema20 |-> 0, ema50 |-> 0,
   trend |-> "SIDEWAYS",
   macd |-> [value |-> 0, signal |-> 0, histogram |-> 0],
   supertrend |-> [direction |-> "UP", value |-> 0]]

\* the fixed result for fewer than 2 smoothed candles
ColdStart ==
  [signal |-> CALL, confidence |-> 50, rsi |-> 50 * RsiScale, ema20 |-> 0, ema50 |-> 0,
   trend |-> "SIDEWAYS",
   macd |-> [value |-> 0, signal |-> 0, histogram |-> 0],
   supertrend |-> [direction |-> "UP", value |-> 0]]

\* mutant: the oversold bonus is 10 like the other bonuses
CallScoreFlat(price, ema20, ema50, rsi, macd, supertrend, isSmallBody, currentHa, prevHa) ==
    (IF price > ema20 THEN 10 ELSE 0)
  + (IF ema20 > ema50 THEN 10 ELSE 0)
  + (IF rsi > 50 * RsiScale /\ rsi < 80 * RsiScale THEN 10 ELSE 0)
  + (IF rsi < 30 * RsiScale THEN 10 ELSE 0)
  + (IF macd.histogram > 0 THEN 10 ELSE 0)
  + (IF macd.value > macd.signal THEN 5 ELSE 0)
  + (IF supertrend.direction = "UP" THEN 10 ELSE 0)
  + (IF ~isSmallBody /\ ~currentHa.hasLowerWick THEN 10 ELSE 0)
  - (IF isSmallBody /\ prevHa.color = "red" THEN 10 ELSE 0)

\* the score of the CALL branch on top of the base
CallScore(price, ema20, ema50, rsi, macd, supertrend, isSmallBody, currentHa, prevHa) ==
    (IF price > ema20 THEN 10 ELSE 0)
  + (IF ema20 > ema50 THEN 10 ELSE 0)
  + (IF rsi > 50 * RsiScale /\ rsi < 80 * RsiScale THEN 10 ELSE 0)
  + (IF rsi < 30 * RsiScale THEN 15 ELSE 0)
  + (IF macd.histogram > 0 THEN 10 ELSE 0)
  + (IF macd.value > macd.signal THEN 5 ELSE 0)
  + (IF supertrend.direction = "UP" THEN 10 ELSE 0)
  + (IF ~isSmallBody /\ ~currentHa.hasLowerWick THEN 10 ELSE 0)
  - (IF isSmallBody /\ prevHa.color = "red" THEN 10 ELSE 0)

\* mutant: the healthy downtrend starts at an RSI of 30, not 20
PutScoreSkewed(price, ema20, ema50, rsi, macd, supertrend, isSmallBody, currentHa, prevHa) ==
    (IF price < ema20 THEN 10 ELSE 0)
  + (IF ema20 < ema50 THEN 10 ELSE 0)
  + (IF rsi < 50 * RsiScale /\ rsi > 30 * RsiScale THEN 10 ELSE 0)
  + (IF rsi > 70 * RsiScale THEN 15 ELSE 0)
  + (IF macd.histogram < 0 THEN 10 ELSE 0)
  + (IF macd.value < macd.signal THEN 5 ELSE 0)
  + (IF supertrend.direction = "DOWN" THEN 10 ELSE 0)
  + (IF ~isSmallBody /\ ~currentHa.hasUpperWick THEN 10 ELSE 0)
  - (IF isSmallBody /\ prevHa.color = "green" THEN 10 ELSE 0)

\* the score of the PUT branch on top of the base
PutScore(price, ema20, ema50, rsi, macd, supertrend, isSmallBody, currentHa, prevHa) ==
    (IF price < ema20 THEN 10 ELSE 0)
  + (IF ema20 < ema50 THEN 10 ELSE 0)
  + (IF rsi < 50 * RsiScale /\ rsi > 20 * RsiScale THEN 10 ELSE 0)
  + (IF rsi > 70 * RsiScale THEN 15 ELSE 0)
  + (IF macd.histogram < 0 THEN 10 ELSE 0)
  + (IF macd.value < macd.signal THEN 5 ELSE 0)
  + (IF supertrend.direction = "DOWN" THEN 10 ELSE 0)
  + (IF ~isSmallBody /\ ~currentHa.hasUpperWick THEN 10 ELSE 0)
  - (IF isSmallBody /\ prevHa.color = "green" THEN 10 ELSE 0)

\* bodySize < totalRange * 0.3, totalRange = high - low
IsSmallBody(currentHa) == 10 * currentHa.bodySize < 3 * (currentHa.high - currentHa.low)

\* the primary signal: the colour of the last smoothed candle
CandleSignal(currentHa) == IF currentHa.color = "green" THEN CALL ELSE PUT

\* confidence before the final decision: the base and the branch of the signal
Accumulated(price, ema20, ema50, rsi, macd, supertrend, currentHa, prevHa) ==
  30 + (IF CandleSignal(currentHa) = CALL
        THEN CallScore(price, ema20, ema50, rsi, macd, supertrend,
                       IsSmallBody(currentHa), currentHa, prevHa)
        ELSE PutScore(price, ema20, ema50, rsi, macd, supertrend,
                      IsSmallBody(currentHa), currentHa, prevHa))

\* mutant: the tie-break leaves the accumulated confidence
FinalDecisionNoFloor(accumulated, candleSignal, price, ema20) ==
  [signal |-> IF accumulated < 40
              THEN (IF price > ema20 THEN CALL ELSE PUT)
              ELSE candleSignal,
   confidence |-> Min2(accumulated, 99)]

\* mutant: the tie-break fires below 30
FinalDecisionLow(accumulated, candleSignal, price, ema20) ==
  [signal |-> IF accumulated < 30
              THEN (IF price > ema20 THEN CALL ELSE PUT)
              ELSE candleSignal,
   confidence |-> Min2(IF accumulated < 30 THEN 45 ELSE accumulated, 99)]

\* mutant: a low confidence with price = ema20 gives no direction
FinalDecisionNeutral(accumulated, candleSignal, price, ema20) ==
  [signal |-> IF accumulated < 40
              THEN (IF price > ema20 THEN CALL
                    ELSE IF price < ema20 THEN PUT ELSE NEUTRAL)
              ELSE candleSignal,
   confidence |-> Min2(IF accumulated < 40 THEN 45 ELSE accumulated, 99)]

\* mutant: the confidence is not capped
FinalDecisionNoCap(accumulated, candleSignal, price, ema20) ==
  [signal |-> IF accumulated < 40
              THEN (IF price > ema20 THEN CALL ELSE PUT)
              ELSE candleSignal,
   confidence |-> IF accumulated < 40 THEN 45 ELSE accumulated]

\* mutant: the tie-break keeps the signal of the candle colour
FinalDecisionKeep(accumulated, candleSignal, price, ema20) ==
  [signal |-> candleSignal,
   confidence |-> Min2(IF accumulated < 40 THEN 45 ELSE accumulated, 99)]

\* the final decision: the tie-break on a low confidence, then the cap
FinalDecision(accumulated, candleSignal, price, ema20) ==
  [signal |-> IF accumulated < 40
              THEN (IF price > ema20 THEN CALL ELSE PUT)
              ELSE candleSignal,
   confidence |-> Min2(IF accumulated < 40 THEN 45 ELSE accumulated, 99)]

analyzeMarket(candles) ==
  LET haCandles == calculateHeikinAshi(candles)
      \* candles.map(c => c.close)
      closes == ArrayOf([i \in 1..Len(candles) |-> candles[i].close], Len(candles))
  IN IF Len(haCandles) < 2 THEN ColdStart
     ELSE
       LET currentHa == haCandles[Len(haCandles)]
           prevHa == haCandles[Len(haCandles) - 1]
           price == currentHa.close
           rsi == calculateRSI(closes, 14)
           ema20Arr == calculateEMA(closes, 20)
           ema50Arr == calculateEMA(closes, 50)
           macd == calculateMACD(closes, 12, 26, 9)
           supertrend == calculateSupertrend(candles, 10, 3)
           ema20 == IF Len(ema20Arr) > 0 THEN Last(ema20Arr) ELSE price
           ema50 == IF Len(ema50Arr) > 0 THEN Last(ema50Arr) ELSE price
           accumulated == Accumulated(price, ema20, ema50, rsi, macd, supertrend,
                                      currentHa, prevHa)
           trend == IF ema20 > ema50 THEN "UP"
                    ELSE IF ema20 < ema50 THEN "DOWN" ELSE "SIDEWAYS"
           decision == FinalDecision(accumulated, CandleSignal(currentHa), price, ema20)
       IN [signal |-> decision.signal, confidence |-> decision.confidence, rsi |-> rsi,
           ema20 |-> ema20, ema50 |-> ema50, trend |-> trend, macd |-> macd,
           supertrend |-> supertrend]

\* ------------------------------------------------------------------------
\* Bounds of the model
\* ------------------------------------------------------------------------

\* kline ticks delivered in one behaviour of the whole component
MaxTicks == 2

\* kline ticks delivered in one behaviour of a single session
MaxSessionTicks == 5

\* instrument / interval changes in one behaviour
MaxChanges == 1

\* instruments the user picks from (they share the feed "btcusdt")
Pairs == {"BTCUSDT", "GOLDOTC"}

\* intervals the user picks from
Timeframes == {"5s", "15s"}

\* close prices the feed carries, in units
Prices == {100 * Scale, 101 * Scale}

\* milliseconds between two consecutive feed events
Steps == {1000, 15000}

\* Math.random() is a generator with a hidden seed: x -> (5x + 3) mod RandDen,
\* each draw being x / RandDen in [0, 1)
RandDen == 8

Seeds == {1, 6}

\* ------------------------------------------------------------------------
\* App (component state, refs and the WebSocket effect)
\* ------------------------------------------------------------------------

\* candles kept by slice(-100)
MaxWindow == 100

\* candles pushed by generateInitialHistory
HistoryBars == 60

intervalSeconds(tf) ==
  CASE tf = "5s" -> 5
    [] tf = "15s" -> 15
    [] tf = "30s" -> 30
    [] tf = "1m" -> 60
    [] tf = "2m" -> 120
    [] OTHER -> 60

NextRand(x) == (5 * x + 3) % RandDen

RECURSIVE HistoryLoopForward(_, _, _, _, _)
\* mutant: the candle times run forward from baseTime
HistoryLoopForward(basePrice, baseTime, iv, x, history) ==
  IF Len(history) >= HistoryBars THEN history
  ELSE LET i == HistoryBars - Len(history)
           currentPrice == IF Len(history) = 0 THEN basePrice ELSE Last(history).close
           volatility == Div(basePrice * 2, 10000)
           r1 == NextRand(x)
           r2 == NextRand(r1)
           r3 == NextRand(r2)
           \* (Math.random() - 0.5) * volatility
           change == Div((2 * r1 - RandDen) * volatility, 2 * RandDen)
           open == currentPrice
           close == currentPrice + change
           \* Math.random() * volatility * 0.5
           high == Max2(open, close) + Div(r2 * volatility, 2 * RandDen)
           low == Min2(open, close) - Div(r3 * volatility, 2 * RandDen)
       IN HistoryLoopForward(basePrice, baseTime, iv, r3,
             Append(history, Candle(baseTime + i * iv, open, high, low, close)))

RECURSIVE HistoryLoop(_, _, _, _, _)
\* the for loop, i = 60 down to 1; x is the state of the generator and
\* currentPrice the close of the last candle pushed
HistoryLoop(basePrice, baseTime, iv, x, history) ==
  IF Len(history) >= HistoryBars THEN history
  ELSE LET i == HistoryBars - Len(history)
           currentPrice == IF Len(history) = 0 THEN basePrice ELSE Last(history).close
           volatility == Div(basePrice * 2, 10000)
           r1 == NextRand(x)
           r2 == NextRand(r1)
           r3 == NextRand(r2)
           \* (Math.random() - 0.5) * volatility
           change == Div((2 * r1 - RandDen) * volatility, 2 * RandDen)
           open == currentPrice
           close == currentPrice + change
           \* Math.random() * volatility * 0.5
           high == Max2(open, close) + Div(r2 * volatility, 2 * RandDen)
           low == Min2(open, close) - Div(r3 * volatility, 2 * RandDen)
       IN HistoryLoop(basePrice, baseTime, iv, r3,
             Append(history, Candle(baseTime - i * iv, open, high, low, close)))

generateInitialHistory(basePrice, baseTime, iv, seed) ==
  HistoryLoop(basePrice, baseTime, iv, seed, <<>>)

VARIABLES
  selectedPair,       \* useState: id of the selected instrument
  timeframe,          \* useState: label of the selected interval
  price,              \* useState: displayed price
  displayedAnalysis,  \* useState: AnalysisResult | null
  isConnected,        \* useState
  wsRef,              \* useRef: id of the current socket (the number of
                      \* sockets created so far)
  candlesRef,         \* useRef: the committed candle window
  latestAnalysisRef,  \* useRef: AnalysisResult | null
  socks,              \* id -> WebSocket that can still dispatch an event,
                      \* with the locals of the effect run that created it
                      \* (a socket leaves when its close event has fired)
  clock,              \* event time (ms) of the last feed event
  nticks,             \* kline ticks delivered so far
  nchanges,           \* instrument / interval changes so far
  handled,            \* ids of the sockets whose onmessage processed a kline tick
                      \* since the last effect run
  lastMessage,        \* the last run of onmessage since the last effect run: the
                      \* kind of the message, the arguments of the calls of
                      \* analyzeMarket it made, in order, and whether it threw
  probe,              \* the last direct call of a function of utils/indicators.ts:
                      \* its name, its arguments and what it returned
  isScanning,         \* useState
  scanInterval,       \* the timer of handleScan: <<>> (none, or cleared) or the
                      \* closure of its callback: startTime and the price that
                      \* handleScan saw
  now,                \* Date.now(), in ms
  nscans              \* the number of scans started

vars == <<selectedPair, timeframe, price, displayedAnalysis, isConnected, wsRef,
          candlesRef, latestAnalysisRef, socks, clock, nticks, nchanges, handled,
          lastMessage, probe, isScanning, scanInterval, now, nscans>>

\* no message has been handled
NoMessage == [kind |-> "none", evals |-> <<>>, threw |-> FALSE]

\* no function has been called directly
NoProbe == [fn |-> "none"]

\* new WebSocket(wsUrl) with the locals declared by the effect
NewSocket(pair, tf) ==
  [stream |-> PAIRS[pair], iv |-> intervalSeconds(tf), readyState |-> "CONNECTING",
   currentAggregatedCandle |-> <<>>, startTime |-> 0, isInitialized |-> FALSE]

Init ==
  /\ selectedPair = "BTCUSDT"
  /\ timeframe = "15s"
  /\ price = 0
  /\ displayedAnalysis = <<>>
  /\ isConnected = FALSE
  /\ wsRef = 1
  /\ candlesRef = <<>>
  /\ latestAnalysisRef = <<>>
  /\ socks = (1 :> NewSocket("BTCUSDT", "15s"))
  /\ clock = 0
  /\ nticks = 0
  /\ nchanges = 0
  /\ handled = {}
  /\ lastMessage = NoMessage
  /\ probe = NoProbe
  /\ isScanning = FALSE
  /\ scanInterval = <<>>
  /\ now = 0
  /\ nscans = 0

\* ---- wsRef.current.onmessage, for a kline message ----

\* mutant: Math.round instead of Math.floor
BucketRound(tickTime, iv) == Div(tickTime, iv)

\* const bucket = Math.floor(tickTime / intervalSeconds)
Bucket(tickTime, iv) == Floor(tickTime, iv)

\* mutant: the finalized candle is not appended
CommitCandleDrop(history, cur) == SliceLast(history, MaxWindow)

\* mutant: slice(0, 100) keeps the oldest candles
CommitCandleHead(history, cur) ==
  SubSeq(history \o cur, 1, Min2(MaxWindow, Len(history \o cur)))

\* [...candlesRef.current, currentAggregatedCandle].slice(-100)
CommitCandle(history, cur) == SliceLast(history \o cur, MaxWindow)

\* the candle opened by the first tick of a bucket
OpenCandle(tickTime, tickPrice) ==
  Candle(tickTime, tickPrice, tickPrice, tickPrice, tickPrice)

\* mutant: high is overwritten by the tick price
UpdateCandleNoMax(c, tickPrice) ==
  [c EXCEPT !.high = tickPrice,
            !.low = Min2(c.low, tickPrice),
            !.close = tickPrice]

\* mutant: low is not updated
UpdateCandleNoLow(c, tickPrice) ==
  [c EXCEPT !.high = Max2(c.high, tickPrice),
            !.close = tickPrice]

\* the in-place update by a later tick of the same bucket
UpdateCandle(c, tickPrice) ==
  [c EXCEPT !.high = Max2(c.high, tickPrice),
            !.low = Min2(c.low, tickPrice),
            !.close = tickPrice]

\* mutant: the history is never generated
PrefillNone(k, history, tickPrice, tickTime, seed) == history

\* mutant: the history is regenerated on every tick
PrefillAlways(k, history, tickPrice, tickTime, seed) ==
  generateInitialHistory(tickPrice, tickTime, k.iv, seed)

\* if (!isInitialized) candlesRef.current = generateInitialHistory(...)
Prefill(k, history, tickPrice, tickTime, seed) ==
  IF ~k.isInitialized
  THEN generateInitialHistory(tickPrice, tickTime, k.iv, seed)
  ELSE history

\* mutant: a tick of the open bucket also writes the pending candle over the
\* last candle of the window
CommittedInPlace(k, history, bucket) ==
  IF k.startTime # bucket /\ k.currentAggregatedCandle # <<>>
  THEN CommitCandle(history, k.currentAggregatedCandle)
  ELSE IF k.currentAggregatedCandle # <<>> /\ Len(history) > 0
       THEN [history EXCEPT ![Len(history)] = k.currentAggregatedCandle[1]]
       ELSE history

\* the window after the "new bucket" branch
Committed(k, history, bucket) ==
  IF k.startTime # bucket /\ k.currentAggregatedCandle # <<>>
  THEN CommitCandle(history, k.currentAggregatedCandle)
  ELSE history

\* latestAnalysisRef after the "new bucket" branch
CommittedAnalysis(k, history, bucket, latest) ==
  IF k.startTime # bucket /\ k.currentAggregatedCandle # <<>>
  THEN <<analyzeMarket(CommitCandle(history, k.currentAggregatedCandle))>>
  ELSE latest

\* currentAggregatedCandle after the if / else-if
Aggregated(k, bucket, tickTime, tickPrice) ==
  IF k.startTime # bucket
  THEN <<OpenCandle(tickTime, tickPrice)>>
  ELSE IF k.currentAggregatedCandle # <<>>
       THEN <<UpdateCandle(k.currentAggregatedCandle[1], tickPrice)>>
       ELSE k.currentAggregatedCandle

\* the real-time evaluation of the pending candle
LiveAnalysis(history, cur, latest) ==
  IF Len(history) > 0 /\ cur # <<>>
  THEN <<analyzeMarket(history \o cur)>>
  ELSE latest

\* the argument of the call of analyzeMarket in the "new bucket" branch
CommittedCall(k, history, bucket) ==
  IF k.startTime # bucket /\ k.currentAggregatedCandle # <<>>
  THEN <<CommitCandle(history, k.currentAggregatedCandle)>>
  ELSE <<>>

\* the argument of the call of analyzeMarket in the real-time update
LiveCall(history, cur) ==
  IF Len(history) > 0 /\ cur # <<>> THEN <<history \o cur>> ELSE <<>>

\* a message event is dispatched only while the socket is OPEN
Delivers(sock) == sock.readyState = "OPEN"

\* socket s receives the kline message {E, k: {c: tickPrice}}; seed is the
\* state of Math.random() when the message arrives
OnMessage(s, E, tickPrice, seed) ==
  LET k == socks[s]
      tickTime == Floor(E, 1000)
      bucket == Bucket(tickTime, k.iv)
      history == Prefill(k, candlesRef, tickPrice, tickTime, seed)
      newHistory == Committed(k, history, bucket)
      cur == Aggregated(k, bucket, tickTime, tickPrice)
  IN /\ Delivers(k)
     /\ price' = tickPrice
     /\ candlesRef' = newHistory
     /\ latestAnalysisRef' =
          LiveAnalysis(newHistory, cur,
                       CommittedAnalysis(k, history, bucket, latestAnalysisRef))
     /\ socks' = [socks EXCEPT ![s].isInitialized = TRUE,
                               ![s].startTime =
                                   IF k.startTime # bucket THEN bucket ELSE @,
                               ![s].currentAggregatedCandle = cur]
     /\ handled' = handled \cup {s}
     /\ lastMessage' = [kind |-> "kline",
                        evals |-> CommittedCall(k, history, bucket)
                                    \o LiveCall(newHistory, cur),
                        threw |-> FALSE]

\* the feed of socket s emits the kline event that follows the last one by dt
KlineEvent(s, dt, p, seed) ==
  \* the draws of Math.random() matter on the first tick of a session only
  /\ socks[s].isInitialized => seed = CHOOSE x \in Seeds : TRUE
  /\ OnMessage(s, clock + dt, p, seed)
  /\ clock' = clock + dt
  /\ nticks' = nticks + 1
  /\ UNCHANGED <<selectedPair, timeframe, displayedAnalysis, isConnected, wsRef,
                 nchanges, probe, isScanning, scanInterval, now, nscans>>

Tick ==
  \E s \in DOMAIN socks, dt \in Steps, p \in Prices, seed \in Seeds :
    /\ nticks < MaxTicks
    /\ KlineEvent(s, dt, p, seed)

\* ---- wsRef.current.onmessage, for a message that is not a kline ----

\* what the feed can send besides klines: the text of a JSON value without a
\* field k ("object": a subscription reply {"result": null, "id": 1}, or any
\* value but null), the text "null", and text that is not JSON
OtherKinds == {"object", "null", "text"}

\* JSON.parse(event.data) throws a SyntaxError on text that is not JSON, and
\* message.k throws a TypeError when message is null
Throws(kind) == kind \in {"null", "text"}

\* socket s receives a message of the given kind: the handler throws, or
\* returns at "if (!message.k) return"
OnOtherMessage(s, kind) ==
  /\ Delivers(socks[s])
  /\ lastMessage' = [kind |-> kind, evals |-> <<>>, threw |-> Throws(kind)]
  /\ UNCHANGED <<selectedPair, timeframe, price, displayedAnalysis, isConnected, wsRef,
                 candlesRef, latestAnalysisRef, socks, clock, nticks, nchanges, handled,
                 probe, isScanning, scanInterval, now, nscans>>

OtherMessage ==
  \E s \in DOMAIN socks, kind \in OtherKinds : OnOtherMessage(s, kind)

\* ---- socket life cycle ----

\* the connection of socket s is established: onopen
SocketOpen ==
  \E s \in DOMAIN socks :
    /\ socks[s].readyState = "CONNECTING"
    /\ socks' = [socks EXCEPT ![s].readyState = "OPEN"]
    /\ isConnected' = TRUE
    /\ UNCHANGED <<selectedPair, timeframe, price, displayedAnalysis, wsRef, candlesRef,
                   latestAnalysisRef, clock, nticks, nchanges, handled, lastMessage,
                   probe, isScanning, scanInterval, now, nscans>>

\* the connection of socket s ends (after close(), or dropped by the peer):
\* onclose
SocketClose ==
  \E s \in DOMAIN socks :
    /\ socks' = [t \in DOMAIN socks \ {s} |-> socks[t]]
    /\ isConnected' = FALSE
    /\ UNCHANGED <<selectedPair, timeframe, price, displayedAnalysis, wsRef, candlesRef,
                   latestAnalysisRef, clock, nticks, nchanges, handled, lastMessage,
                   probe, isScanning, scanInterval, now, nscans>>

\* ---- the WebSocket effect ----

\* mutant: the cleanup does not close the socket
CloseSocketNoop(sock) == sock

\* WebSocket.close(): a socket that is not yet closed starts closing
CloseSocket(sock) ==
  IF sock.readyState \in {"CONNECTING", "OPEN"}
  THEN [sock EXCEPT !.readyState = "CLOSING"]
  ELSE sock

\* the cleanup of the previous effect run
Cleanup(ss, ws) == [t \in DOMAIN ss |-> IF t = ws THEN CloseSocket(ss[t]) ELSE ss[t]]

\* mutant: latestAnalysisRef is not reset
RunEffectStale(pair, tf) ==
  /\ nchanges < MaxChanges
  /\ selectedPair' = pair
  /\ timeframe' = tf
  /\ candlesRef' = <<>>
  /\ displayedAnalysis' = <<>>
  /\ price' = 0
  /\ isConnected' = FALSE
  /\ socks' = Cleanup(socks, wsRef) @@ ((wsRef + 1) :> NewSocket(pair, tf))
  /\ wsRef' = wsRef + 1
  /\ handled' = {}
  /\ nchanges' = nchanges + 1
  /\ lastMessage' = NoMessage
  /\ UNCHANGED <<clock, nticks, latestAnalysisRef, probe, isScanning, scanInterval, now,
                 nscans>>

\* the dependencies changed: cleanup of the previous run, then the effect body
RunEffect(pair, tf) ==
  /\ nchanges < MaxChanges
  /\ selectedPair' = pair
  /\ timeframe' = tf
  /\ candlesRef' = <<>>
  /\ displayedAnalysis' = <<>>
  /\ price' = 0
  /\ isConnected' = FALSE
  /\ latestAnalysisRef' = <<>>
  /\ socks' = Cleanup(socks, wsRef) @@ ((wsRef + 1) :> NewSocket(pair, tf))
  /\ wsRef' = wsRef + 1
  /\ handled' = {}
  /\ nchanges' = nchanges + 1
  /\ lastMessage' = NoMessage
  /\ UNCHANGED <<clock, nticks, probe, isScanning, scanInterval, now, nscans>>

\* <select onChange>: setSelectedPair
SelectPair ==
  \E p \in Pairs : p # selectedPair /\ RunEffect(p, timeframe)

\* timeframe button onClick: setTimeframe
SetTimeframe ==
  \E tf \in Timeframes : tf # timeframe /\ RunEffect(selectedPair, tf)

Next == Tick \/ SocketOpen \/ SocketClose \/ SelectPair \/ SetTimeframe

Spec == Init /\ [][Next]_vars

\* ------------------------------------------------------------------------
\* A single session: the socket of the first effect run and its feed
\* ------------------------------------------------------------------------

SessionTick ==
  \E s \in DOMAIN socks, dt \in Steps, p \in Prices, seed \in Seeds :
    /\ nticks < MaxSessionTicks
    /\ KlineEvent(s, dt, p, seed)

NextSession == SocketOpen \/ SessionTick

SpecSession == Init /\ [][NextSession]_vars

\* ------------------------------------------------------------------------
\* A feed that mixes klines with other messages
\* ------------------------------------------------------------------------

\* kline ticks delivered in one behaviour of the mixed feed
MaxFeedTicks == 3

FeedTick ==
  \E s \in DOMAIN socks, dt \in Steps, p \in Prices, seed \in Seeds :
    /\ nticks < MaxFeedTicks
    /\ KlineEvent(s, dt, p, seed)

NextFeed == SocketOpen \/ FeedTick \/ OtherMessage

SpecFeed == Init /\ [][NextFeed]_vars

\* ------------------------------------------------------------------------
\* A long session: after FreeTicks arbitrary ticks the feed closes one candle
\* per tick, long enough for the window to overflow
\* ------------------------------------------------------------------------

MaxLongTicks == 45

FreeTicks == 2

\* the price of the n-th steady tick
SteadyPrice(n) == IF n % 3 = 0 THEN 101 * Scale ELSE 100 * Scale

SteadyTick ==
  \E s \in DOMAIN socks, dt \in Steps, p \in Prices, seed \in Seeds :
    /\ nticks < MaxLongTicks
    \* a step of 15 s crosses a candle boundary of either interval
    /\ nticks >= FreeTicks => dt = 15000 /\ p = SteadyPrice(nticks)
    /\ KlineEvent(s, dt, p, seed)

NextLong == SocketOpen \/ SteadyTick

SpecLong == Init /\ [][NextLong]_vars

\* ------------------------------------------------------------------------
\* handleScan and handleReset: the scan polls latestAnalysisRef every 200 ms.
\* setTraders and getTopTraders feed the social panel only and are left out.
\* ------------------------------------------------------------------------

MaxScans == 2

MaxScanTicks == 1

\* const minDuration = 2000
minDuration == 2000

\* setInterval(..., 200): a callback runs 200 ms after the previous one, or late
PollDelays == {200, 300}

\* the result shown when the timeout finds none; price is the state that
\* handleScan saw
Fallback(p) ==
  [signal |-> CALL, confidence |-> 45, rsi |-> 50 * RsiScale, ema20 |-> p, ema50 |-> p,
   trend |-> "SIDEWAYS",
   macd |-> [value |-> 0, signal |-> 0, histogram |-> 0],
   supertrend |-> [direction |-> "UP", value |-> 0]]

\* currentAnalysis && currentAnalysis.signal !== TradeSignal.WAITING
HasData(currentAnalysis) ==
  currentAnalysis # <<>> /\ currentAnalysis[1].signal # WAITING

\* mutant: the result is taken as soon as there is one
AcceptsAtOnce(currentAnalysis, elapsed) == HasData(currentAnalysis)

\* if (hasData && elapsed >= minDuration)
Accepts(currentAnalysis, elapsed) ==
  HasData(currentAnalysis) /\ elapsed >= minDuration

\* if (elapsed > 5000)
TimedOut(elapsed) == elapsed > 5000

\* mutant: the timeout shows the latest result, or nothing
ShownLatest(currentAnalysis, fallback) == currentAnalysis

\* currentAnalysis || fallback
Shown(currentAnalysis, fallback) ==
  IF currentAnalysis # <<>> THEN currentAnalysis ELSE <<fallback>>

\* handleScan past its guard "if (isScanning) return"
handleScan ==
  /\ ~isScanning
  /\ nscans < MaxScans
  /\ isScanning' = TRUE
  /\ displayedAnalysis' = <<>>
  /\ scanInterval' = <<[startTime |-> now, price |-> price]>>
  /\ nscans' = nscans + 1
  /\ UNCHANGED <<selectedPair, timeframe, price, isConnected, wsRef, candlesRef,
                 latestAnalysisRef, socks, clock, nticks, nchanges, handled, lastMessage,
                 probe, now>>

\* a click on the scan button, rendered while nothing is displayed and no scan
\* runs, and disabled while the feed is not connected
ClickScan ==
  /\ displayedAnalysis = <<>>
  /\ isConnected
  /\ handleScan

\* handleReset, the handler of the re-scan button of the result view
handleReset ==
  /\ displayedAnalysis # <<>>
  /\ handleScan

\* the callback of setInterval runs
Poll ==
  /\ scanInterval # <<>>
  /\ \E delay \in PollDelays :
       LET k == scanInterval[1]
           elapsed == now + delay - k.startTime
           currentAnalysis == latestAnalysisRef
           accepted == Accepts(currentAnalysis, elapsed)
           timedOut == TimedOut(elapsed)
       IN /\ now' = now + delay
          \* clearInterval(scanInterval)
          /\ scanInterval' = IF accepted \/ timedOut THEN <<>> ELSE scanInterval
          /\ displayedAnalysis' =
               IF timedOut THEN Shown(currentAnalysis, Fallback(k.price))
               ELSE IF accepted THEN currentAnalysis
               ELSE displayedAnalysis
          /\ isScanning' = IF accepted \/ timedOut THEN FALSE ELSE isScanning
  /\ UNCHANGED <<selectedPair, timeframe, price, isConnected, wsRef, candlesRef,
                 latestAnalysisRef, socks, clock, nticks, nchanges, handled, lastMessage,
                 probe, nscans>>

\* the feed during a scan session
ScanTick ==
  /\ nticks < MaxScanTicks
  /\ \E s \in DOMAIN socks, dt \in Steps :
       KlineEvent(s, dt, SteadyPrice(nticks), CHOOSE x \in Seeds : TRUE)

NextScan == SocketOpen \/ ScanTick \/ ClickScan \/ handleReset \/ Poll

SpecScan == Init /\ [][NextScan]_vars

\* a timer that is due runs its callback
SpecScanFair == SpecScan /\ WF_vars(Poll)

\* ------------------------------------------------------------------------
\* A full window followed by ticks of any step and price: candles are evicted
\* and the pending candle is updated in place.
\* ------------------------------------------------------------------------

MaxLateTicks == 2

LateTick ==
  \E s \in DOMAIN socks, dt \in Steps, p \in Prices, seed \in Seeds :
    /\ nticks >= MaxLongTicks
    /\ nticks < MaxLongTicks + MaxLateTicks
    /\ KlineEvent(s, dt, p, seed)

NextEvict == SocketOpen \/ SteadyTick \/ LateTick

SpecEvict == Init /\ [][NextEvict]_vars

\* ------------------------------------------------------------------------
\* The scenario "ticks at t, t+5, t+11, interval 10 s, prices 100, 101, 99".
\* No timeframe of the catalogue yields 10 s: the scenario runs the handler
\* of a socket whose effect captured intervalSeconds = 10.
\* ------------------------------------------------------------------------

\* the largest start time t (seconds) of the scenario
MaxStart == 39

\* milliseconds from the previous event to tick n + 1 of the scenario
ScenarioStep(n) == CASE n = 0 -> 0 [] n = 1 -> 5000 [] OTHER -> 6000

\* the price of tick n + 1 of the scenario
ScenarioPrice(n) == CASE n = 0 -> 100 * Scale [] n = 1 -> 101 * Scale [] OTHER -> 99 * Scale

InitScenario ==
  /\ selectedPair = "BTCUSDT"
  /\ timeframe = "15s"
  /\ price = 0
  /\ displayedAnalysis = <<>>
  /\ isConnected = TRUE
  /\ wsRef = 1
  /\ candlesRef = <<>>
  /\ latestAnalysisRef = <<>>
  /\ socks = (1 :> [NewSocket("BTCUSDT", "15s") EXCEPT !.iv = 10,
                                                       !.readyState = "OPEN"])
  /\ clock \in {1000 * t : t \in 0..MaxStart}
  /\ nticks = 0
  /\ nchanges = 0
  /\ handled = {}
  /\ lastMessage = NoMessage
  /\ probe = NoProbe
  /\ isScanning = FALSE
  /\ scanInterval = <<>>
  /\ now = 0
  /\ nscans = 0

ScenarioTick ==
  \E seed \in Seeds :
    /\ nticks < 3
    /\ KlineEvent(wsRef, ScenarioStep(nticks), ScenarioPrice(nticks), seed)

NextScenario == ScenarioTick

SpecScenario == InitScenario /\ [][NextScenario]_vars

\* ------------------------------------------------------------------------
\* The functions of utils/indicators.ts called directly: each behaviour makes
\* one call, on arguments drawn from the sets below
\* ------------------------------------------------------------------------

\* the longest tail of a candle window, and the longest array of closes
MaxLen == 3

\* flat candles in front of the tail (calculateSupertrend needs 11 candles)
PadLens == {0, 10}

\* raw candles as <<open, high, low, close>> in whole prices: flat, full up,
\* full down, doji with both wicks, up with a lower wick, up with long wicks
EngineShapes ==
  {<<100, 100, 100, 100>>, <<100, 102, 100, 102>>, <<102, 102, 100, 100>>,
   <<101, 103, 99, 101>>, <<100, 102, 99, 101>>, <<101, 104, 100, 102>>}

EngineCandles ==
  {Candle(0, q[1] * Scale, q[2] * Scale, q[3] * Scale, q[4] * Scale) : q \in EngineShapes}

RECURSIVE SeqsOf(_, _)
\* the arrays of length n over S
SeqsOf(S, n) ==
  IF n = 0 THEN {<<>>} ELSE {Append(a, x) : a \in SeqsOf(S, n - 1), x \in S}

\* the arrays of length at most n over S
UpTo(S, n) == UNION {SeqsOf(S, k) : k \in 0..n}

\* n flat candles
Pad(n) == [i \in 1..n |-> Candle(0, 100 * Scale, 100 * Scale, 100 * Scale, 100 * Scale)]

\* the windows the component passes: a bootstrap history, alone or followed by
\* one candle
BootWindows ==
  {generateInitialHistory(p, 900, 15, seed) \o t :
     p \in Prices, seed \in Seeds, t \in UpTo(EngineCandles, 1)}

\* the candle windows
Windows ==
  {Pad(n) \o t : n \in PadLens, t \in UpTo(EngineCandles, MaxLen)} \cup BootWindows

\* the arrays of closes
CloseSeqs == UpTo({9 * Scale, 10 * Scale, 11 * Scale}, MaxLen)

\* the last two smoothed candles <<prevHa, currentHa>>
HaPairs == {calculateHeikinAshi(t) : t \in SeqsOf(EngineCandles, 2)}

\* ema20 - price and ema50 - ema20
EmaOffsets == {-Scale, 0, Scale}

\* values of the RSI, with the thresholds of the score
RsiLevels == {r * RsiScale : r \in {10, 20, 25, 30, 40, 50, 60, 70, 75, 80, 90}}

\* macd.value and macd.signal
MacdLevels == {0, 50}

appVars == <<selectedPair, timeframe, price, displayedAnalysis, isConnected, wsRef,
             candlesRef, latestAnalysisRef, socks, clock, nticks, nchanges, handled,
             lastMessage, isScanning, scanInterval, now, nscans>>

CallHeikinAshi ==
  /\ probe = NoProbe
  /\ \E candles \in Windows :
       /\ probe' = [fn |-> "calculateHeikinAshi", candles |-> candles,
                    out |-> calculateHeikinAshi(candles)]
       /\ UNCHANGED appVars

CallRSI ==
  /\ probe = NoProbe
  /\ \E closes \in CloseSeqs :
       /\ probe' = [fn |-> "calculateRSI", closes |-> closes,
                    out |-> calculateRSI(closes, 14)]
       /\ UNCHANGED appVars

CallAnalyze ==
  /\ probe = NoProbe
  /\ \E candles \in Windows :
       /\ probe' = [fn |-> "analyzeMarket", candles |-> candles,
                    out |-> analyzeMarket(candles)]
       /\ UNCHANGED appVars

\* steps 3 and 4 of analyzeMarket on the values computed by steps 1 and 2
CallDecision ==
  /\ probe = NoProbe
  /\ \E ha \in HaPairs, d20 \in EmaOffsets, d50 \in EmaOffsets, rsi \in RsiLevels,
        value \in MacdLevels, signal \in MacdLevels, direction \in {"UP", "DOWN"} :
       LET prevHa == ha[1]
           currentHa == ha[2]
           \* const price = currentHa.close
           haClose == currentHa.close
           ema20 == haClose + d20
           ema50 == ema20 + d50
           macd == [value |-> value, signal |-> signal, histogram |-> value - signal]
           supertrend == [direction |-> direction, value |-> 0]
           accumulated == Accumulated(haClose, ema20, ema50, rsi, macd, supertrend,
                                      currentHa, prevHa)
       IN /\ probe' = [fn |-> "decision", price |-> haClose, ema20 |-> ema20, ema50 |-> ema50,
                       rsi |-> rsi, macd |-> macd, supertrend |-> supertrend,
                       currentHa |-> currentHa, prevHa |-> prevHa,
                       accumulated |-> accumulated,
                       out |-> FinalDecision(accumulated, CandleSignal(currentHa),
                                             haClose, ema20)]
          /\ UNCHANGED appVars

\* calculateHeikinAshi applied to a window and then to its own result
CallHeikinAshiTwice ==
  /\ probe = NoProbe
  /\ \E candles \in Windows :
       LET out == calculateHeikinAshi(candles)
       IN /\ probe' = [fn |-> "calculateHeikinAshi twice", candles |-> candles,
                       out |-> out, again |-> calculateHeikinAshi(out)]
          /\ UNCHANGED appVars

\* the periods passed to calculateEMA: the one of analyzeMarket and a negative one
Periods == {20, -3}

\* calculateEMA has no check of its arguments and no throw statement: every
\* call runs to the return statement
CallEMA ==
  /\ probe = NoProbe
  /\ \E data \in CloseSeqs, period \in Periods :
       /\ probe' = [fn |-> "calculateEMA", data |-> data, period |-> period,
                    threw |-> FALSE, out |-> calculateEMA(data, period)]
       /\ UNCHANGED appVars

NextEngine ==
  \/ CallHeikinAshi \/ CallRSI \/ CallAnalyze \/ CallDecision
  \/ CallHeikinAshiTwice \/ CallEMA

SpecEngine == Init /\ [][NextEngine]_vars

\* ------------------------------------------------------------------------
\* Properties
\* ------------------------------------------------------------------------

\* the step is the processing of a kline tick by the current socket
IsTick == nticks' = nticks + 1 /\ wsRef \in DOMAIN socks

\* the tick being processed, read off the step
TickTime == clock' \div 1000

TickPrice == price'

\* the locals of the current socket before and after the step
Before == socks[wsRef]

After == socks'[wsRef]

\* C1: a tick whose bucket index floor(tickTime / intervalSeconds) differs
\* from the open bucket appends the in-progress candle (if any) unchanged at
\* the end of the committed window, opens a new in-progress candle with
\* time = tickTime and open = high = low = close = price, and makes the
\* tick's bucket the open bucket.
C1_NewBucket ==
  [][IsTick /\ (TickTime \div Before.iv) # Before.startTime =>
       /\ Before.currentAggregatedCandle # <<>> =>
            /\ Last(candlesRef') = Before.currentAggregatedCandle[1]
            /\ Len(candlesRef) < MaxWindow =>
                 candlesRef' = Append(candlesRef, Before.currentAggregatedCandle[1])
       /\ Before.currentAggregatedCandle = <<>> /\ Before.isInitialized =>
            candlesRef' = candlesRef
       /\ After.currentAggregatedCandle =
            <<[time |-> TickTime, open |-> TickPrice, high |-> TickPrice,
               low |-> TickPrice, close |-> TickPrice]>>
       /\ After.startTime = TickTime \div Before.iv]_vars

\* a candle is in progress, it was finalized into the window and a new one
\* was opened: the window holds the bootstrap and one finalized candle
C1_Witness ==
  /\ wsRef \in DOMAIN socks
  /\ Len(candlesRef) = HistoryBars + 1
  /\ socks[wsRef].currentAggregatedCandle # <<>>
  /\ socks[wsRef].currentAggregatedCandle[1].time > Last(candlesRef).time

\* C2: a tick in the bucket of the in-progress candle sets high to
\* max(high, price), low to min(low, price), close to price, and leaves
\* open, time, the open bucket index and the committed window unchanged.
C2_SameBucket ==
  [][IsTick /\ (TickTime \div Before.iv) = Before.startTime
            /\ Before.currentAggregatedCandle # <<>> =>
       LET c == Before.currentAggregatedCandle[1]
           d == After.currentAggregatedCandle[1]
       IN /\ Len(After.currentAggregatedCandle) = 1
          /\ d.high = (IF c.high >= TickPrice THEN c.high ELSE TickPrice)
          /\ d.low = (IF c.low <= TickPrice THEN c.low ELSE TickPrice)
          /\ d.close = TickPrice
          /\ d.open = c.open
          /\ d.time = c.time
          /\ After.startTime = Before.startTime
          /\ candlesRef' = candlesRef]_vars

\* an in-progress candle that a later tick of its bucket has moved
C2_Witness ==
  /\ wsRef \in DOMAIN socks
  /\ socks[wsRef].currentAggregatedCandle # <<>>
  /\ LET c == socks[wsRef].currentAggregatedCandle[1]
     IN /\ c.time < clock \div 1000
        /\ c.high > c.open
        /\ c.close = c.high

\* C3: the committed window never holds more than 100 candles, and a candle
\* finalized into a full window evicts the oldest one: the window becomes
\* the 99 most recent candles, in their order, followed by the new one.
C3_WindowCap ==
  [][/\ Len(candlesRef') <= 100
     /\ IsTick /\ (TickTime \div Before.iv) # Before.startTime
               /\ Before.currentAggregatedCandle # <<>>
               /\ Len(candlesRef) = 100 =>
          /\ Len(candlesRef') = 100
          /\ \A i \in 1..99 : candlesRef'[i] = candlesRef[i + 1]
          /\ candlesRef'[100] = Before.currentAggregatedCandle[1]]_vars

\* the window is full and a bootstrap candle has been evicted: position 60
\* holds a finalized candle (the bootstrap candles of this session are the
\* only ones with a negative time)
C3_Witness ==
  /\ Len(candlesRef) = 100
  /\ candlesRef[60].time >= 0
  /\ candlesRef[1].time < 0

\* C4: after every kline tick an in-progress candle exists, the latest
\* result is analyze(committed window followed by the in-progress candle),
\* and the in-progress candle is not in the committed window.
C4_LiveSnapshot ==
  wsRef \in DOMAIN socks /\ socks[wsRef].isInitialized =>
    /\ socks[wsRef].currentAggregatedCandle # <<>>
    /\ latestAnalysisRef =
         <<analyzeMarket(candlesRef \o socks[wsRef].currentAggregatedCandle)>>
    /\ Last(candlesRef) # socks[wsRef].currentAggregatedCandle[1]

\* C5: an instrument or interval change leaves the window empty, no
\* in-progress candle, the open bucket index cleared, no latest result, and
\* the next tick generates the bootstrap history again.
C5_Reset ==
  [][/\ wsRef' # wsRef =>
          /\ candlesRef' = <<>>
          /\ latestAnalysisRef' = <<>>
          /\ wsRef' \in DOMAIN socks'
          /\ socks'[wsRef'].currentAggregatedCandle = <<>>
          /\ socks'[wsRef'].startTime = 0
          /\ ~socks'[wsRef'].isInitialized
     /\ IsTick /\ handled = {} =>
          /\ Len(candlesRef') = 60
          /\ \A i \in 1..60 :
               candlesRef'[i].time = TickTime - (61 - i) * Before.iv]_vars

\* the state right after a change that discarded a session with ticks
C5_Witness ==
  /\ nchanges = 1
  /\ nticks >= 2
  /\ handled = {}
  /\ candlesRef = <<>>
  /\ latestAnalysisRef = <<>>

\* C6: no tick of an old feed is processed after the reset: since the last
\* effect run only the current socket has written the window and the latest
\* result, and before its first tick both are empty.
C6_NoStaleTick ==
  /\ handled \subseteq {wsRef}
  /\ handled = {} => candlesRef = <<>> /\ latestAnalysisRef = <<>>

\* the new feed has delivered a tick while the old socket is still closing
C6_Witness ==
  /\ nchanges = 1
  /\ handled = {wsRef}
  /\ (wsRef - 1) \in DOMAIN socks
  /\ socks[wsRef - 1].isInitialized
  /\ socks[wsRef - 1].readyState = "CLOSING"

\* the start time t of the scenario, read off the clock
ScenarioStart ==
  clock \div 1000 - (CASE nticks <= 1 -> 0 [] nticks = 2 -> 5 [] OTHER -> 11)

\* the candle of the first two ticks of the scenario
ScenarioFirst ==
  [time |-> ScenarioStart, open |-> 100 * Scale, high |-> 101 * Scale,
   low |-> 100 * Scale, close |-> 101 * Scale]

\* the candle opened by the third tick of the scenario
ScenarioSecond ==
  [time |-> ScenarioStart + 11, open |-> 99 * Scale, high |-> 99 * Scale,
   low |-> 99 * Scale, close |-> 99 * Scale]

\* what the scenario promises after the second and after the third tick
ScenarioOutcome ==
  /\ nticks = 2 =>
       /\ socks[wsRef].currentAggregatedCandle = <<ScenarioFirst>>
       /\ Len(candlesRef) = 60
  /\ nticks = 3 =>
       /\ Len(candlesRef) = 61
       /\ candlesRef[61] = ScenarioFirst
       /\ socks[wsRef].currentAggregatedCandle = <<ScenarioSecond>>

WellFormed(c) ==
  /\ c.high >= c.open
  /\ c.high >= c.close
  /\ c.low <= c.open
  /\ c.low <= c.close

\* C9: every candle of the committed window and the in-progress candle have
\* high >= max(open, close) and low <= min(open, close).
C9_WellFormed ==
  /\ \A i \in 1..Len(candlesRef) : WellFormed(candlesRef[i])
  /\ \A s \in DOMAIN socks :
       \A i \in 1..Len(socks[s].currentAggregatedCandle) :
         WellFormed(socks[s].currentAggregatedCandle[i])

\* a finalized candle that a lower price has moved, and a candle in progress
C9_Witness ==
  /\ wsRef \in DOMAIN socks
  /\ Len(candlesRef) = 61
  /\ candlesRef[61].low < candlesRef[61].open
  /\ candlesRef[61].close = candlesRef[61].low
  /\ socks[wsRef].currentAggregatedCandle # <<>>

\* C10: the first kline tick of a session replaces the window by exactly 60
\* candles with times tickTime - i * intervalSeconds, i = 60..1, all earlier
\* than the tick, and a later tick of the session only keeps the window or
\* appends the finalized candle to it.
C10_BootstrapOnce ==
  [][IsTick =>
       IF ~Before.isInitialized
       THEN /\ Len(candlesRef') = 60
            /\ \A i \in 1..60 :
                 /\ candlesRef'[i].time = TickTime - (61 - i) * Before.iv
                 /\ candlesRef'[i].time < TickTime
       ELSE \/ candlesRef' = candlesRef
            \/ /\ Before.currentAggregatedCandle # <<>>
               /\ candlesRef' =
                    SliceLast(Append(candlesRef, Before.currentAggregatedCandle[1]), 100)]_vars

\* four ticks of one session: the bootstrap and two finalized candles
C10_Witness ==
  /\ nchanges = 0
  /\ nticks = 4
  /\ Len(candlesRef) = 62

\* the transient snapshot after the step: the committed window followed by the
\* in-progress candle
Snapshot == candlesRef' \o After.currentAggregatedCandle

\* C11: a tick that stays in the open bucket drives exactly one evaluation,
\* on the transient snapshot; a tick that crosses a candle boundary with an
\* in-progress candle present commits that candle and evaluates the committed
\* window, then evaluates the transient snapshot, in that order; no tick
\* drives more than two evaluations.
C11_Evaluations ==
  [][IsTick =>
       /\ (TickTime \div Before.iv) = Before.startTime =>
            lastMessage'.evals = <<Snapshot>>
       /\ (TickTime \div Before.iv) # Before.startTime
            /\ Before.currentAggregatedCandle # <<>> =>
            /\ Last(candlesRef') = Before.currentAggregatedCandle[1]
            /\ lastMessage'.evals = <<candlesRef', Snapshot>>
       /\ Len(lastMessage'.evals) <= 2]_vars

\* the step is the handling of a message that is not a kline
IsOther == lastMessage' # lastMessage /\ lastMessage'.kind \in OtherKinds

\* C12: a feed message without a field k is ignored: the committed window,
\* the in-progress candle, the open bucket index, the bootstrap flag, the
\* displayed price and the latest result are unchanged, and no error is
\* raised.
C12_NonKlineIgnored ==
  [][IsOther =>
       /\ candlesRef' = candlesRef
       /\ socks' = socks
       /\ price' = price
       /\ latestAnalysisRef' = latestAnalysisRef
       /\ ~lastMessage'.threw]_vars

\* the probe is a call of analyzeMarket, or of its steps 3 and 4
IsResult == probe.fn \in {"analyzeMarket", "decision"}

\* C13: every result of analyzeMarket, for a window of any length, has the
\* signal CALL or PUT, never NEUTRAL or WAITING.
C13_BinarySignal ==
  IsResult => probe.out.signal \in {CALL, PUT}

\* the result for a window of the component: a bootstrap history and a candle
C13_Witness ==
  /\ probe.fn = "analyzeMarket"
  /\ Len(probe.candles) > HistoryBars
  /\ probe.out.signal = PUT

\* C14: for every window of length >= 2 and every combination of indicator
\* outcomes the confidence is an integer in [0, 99]: capped at 99 and never
\* negative, also on the tie-break path.
C14_ConfidenceRange ==
  /\ probe.fn = "analyzeMarket" /\ Len(probe.candles) >= 2 =>
       probe.out.confidence \in 0..99
  /\ probe.fn = "decision" => probe.out.confidence \in 0..99

\* every bonus of the CALL branch applies: 100 accumulated, 99 returned
C14_Witness ==
  /\ probe.fn = "decision"
  /\ probe.accumulated = 100
  /\ probe.out.confidence = 99

\* C15: an accumulated confidence below 40 returns confidence 45 and the
\* signal CALL if price > ema20, PUT otherwise (also when they are equal),
\* whatever the colour of the candle; an accumulated confidence of 40 or more
\* returns the signal of the colour and the accumulated confidence, capped
\* at 99.
C15_TieBreak ==
  probe.fn = "decision" =>
    IF probe.accumulated < 40
    THEN /\ probe.out.confidence = 45
         /\ probe.price > probe.ema20 => probe.out.signal = CALL
         /\ probe.price <= probe.ema20 => probe.out.signal = PUT
    ELSE /\ probe.currentHa.color = "green" => probe.out.signal = CALL
         /\ probe.currentHa.color = "red" => probe.out.signal = PUT
         /\ probe.accumulated <= 99 => probe.out.confidence = probe.accumulated
         /\ probe.accumulated > 99 => probe.out.confidence = 99

\* the tie-break turns a down candle into a CALL
C15_Witness ==
  /\ probe.fn = "decision"
  /\ probe.accumulated < 40
  /\ probe.currentHa.color = "red"
  /\ probe.price > probe.ema20
  /\ probe.out.signal = CALL

\* C16: analyzeMarket on an empty window or on a window of one candle
\* returns exactly {CALL, 50, rsi 50, ema20 0, ema50 0, SIDEWAYS, macd 0/0/0,
\* supertrend {UP, 0}}.
C16_ColdStart ==
  probe.fn = "analyzeMarket" /\ Len(probe.candles) < 2 =>
    probe.out = [signal |-> "CALL", confidence |-> 50, rsi |-> 50 * RsiScale,
                 ema20 |-> 0, ema50 |-> 0, trend |-> "SIDEWAYS",
                 macd |-> [value |-> 0, signal |-> 0, histogram |-> 0],
                 supertrend |-> [direction |-> "UP", value |-> 0]]

\* analyzeMarket was called on a window of one candle that is not flat
C16_Witness ==
  /\ probe.fn = "analyzeMarket"
  /\ Len(probe.candles) = 1
  /\ probe.candles[1].close > probe.candles[1].open

\* n if b holds, 0 otherwise
Bonus(b, n) == IF b THEN n ELSE 0

\* C17: for an up candle the confidence accumulated before the tie-break and
\* the cap is 30, +10 if price > ema20, +10 if ema20 > ema50, +10 if
\* 50 < rsi < 80, +15 if rsi < 30, +10 if macd.histogram > 0, +5 if
\* macd.value > macd.signal, +10 if supertrend is UP, +10 if the body is not
\* small and there is no lower wick, -10 if the body is small and the
\* previous smoothed candle is down.
C17_CallScore ==
  probe.fn = "decision" /\ probe.currentHa.color = "green" =>
    probe.accumulated =
      30 + Bonus(probe.price > probe.ema20, 10)
         + Bonus(probe.ema20 > probe.ema50, 10)
         + Bonus(50 * RsiScale < probe.rsi /\ probe.rsi < 80 * RsiScale, 10)
         + Bonus(probe.rsi < 30 * RsiScale, 15)
         + Bonus(probe.macd.histogram > 0, 10)
         + Bonus(probe.macd.value > probe.macd.signal, 5)
         + Bonus(probe.supertrend.direction = "UP", 10)
         + Bonus(~IsSmallBody(probe.currentHa) /\ ~probe.currentHa.hasLowerWick, 10)
         - Bonus(IsSmallBody(probe.currentHa) /\ probe.prevHa.color = "red", 10)

\* an oversold up candle with a small body after a down candle
C17_Witness ==
  /\ probe.fn = "decision"
  /\ probe.currentHa.color = "green"
  /\ probe.rsi < 30 * RsiScale
  /\ IsSmallBody(probe.currentHa)
  /\ probe.prevHa.color = "red"
  /\ probe.supertrend.direction = "UP"

\* the other colour, the other direction
Flip(x) ==
  CASE x = "green" -> "red" [] x = "red" -> "green"
    [] x = "UP" -> "DOWN" [] x = "DOWN" -> "UP"

\* C18: the confidence accumulated for a down candle equals what the CALL
\* branch accumulates for the mirrored inputs: price, ema20 and ema50
\* reflected (every comparison reversed), rsi replaced by 100 - rsi, the MACD
\* values reflected, the supertrend direction flipped, the lower wick replaced
\* by the upper wick and the colour of the previous candle flipped.
C18_PutMirrorsCall ==
  probe.fn = "decision" /\ probe.currentHa.color = "red" =>
    probe.accumulated =
      30 + CallScore(-probe.price, -probe.ema20, -probe.ema50,
                     100 * RsiScale - probe.rsi,
                     [value |-> -probe.macd.value, signal |-> -probe.macd.signal,
                      histogram |-> -probe.macd.histogram],
                     [probe.supertrend EXCEPT !.direction = Flip(@)],
                     IsSmallBody(probe.currentHa),
                     [probe.currentHa EXCEPT !.hasLowerWick = probe.currentHa.hasUpperWick],
                     [probe.prevHa EXCEPT !.color = Flip(@)])

\* a down candle with a small body after an up candle, the RSI between the
\* thresholds 20 and 30
C18_Witness ==
  /\ probe.fn = "decision"
  /\ probe.currentHa.color = "red"
  /\ probe.rsi = 25 * RsiScale
  /\ IsSmallBody(probe.currentHa)
  /\ probe.prevHa.color = "green"
  /\ probe.macd.value < probe.macd.signal

\* C19 as stated: calculateRSI on the closes [10, 10] with period 14 returns
\* 50.
C19_FlatRsi50 ==
  probe.fn = "calculateRSI" /\ probe.closes = <<10 * Scale, 10 * Scale>> =>
    probe.out = 50 * RsiScale

\* C19 as amended: calculateRSI on the closes [10, 10] with period 14 returns
\* 100.
C19_FlatRsi100 ==
  probe.fn = "calculateRSI" /\ probe.closes = <<10 * Scale, 10 * Scale>> =>
    probe.out = 100 * RsiScale

\* calculateRSI was called on [10, 10]
C19_Witness ==
  /\ probe.fn = "calculateRSI"
  /\ probe.closes = <<10 * Scale, 10 * Scale>>

\* C20: the smoothed opens follow open'_0 = open_0 and, for i > 0,
\* open'_i = (open'_(i-1) + close'_(i-1)) / 2, where
\* close'_j = (open_j + high_j + low_j + close_j) / 4.
C20_SmoothedOpen ==
  probe.fn = "calculateHeikinAshi" =>
    /\ Len(probe.out) = Len(probe.candles)
    /\ \A j \in 1..Len(probe.candles) :
         probe.out[j].close =
           Div(probe.candles[j].open + probe.candles[j].high
                 + probe.candles[j].low + probe.candles[j].close, 4)
    /\ Len(probe.candles) > 0 => probe.out[1].open = probe.candles[1].open
    /\ \A i \in 2..Len(probe.candles) :
         probe.out[i].open = Div(probe.out[i - 1].open + probe.out[i - 1].close, 2)

\* a window whose third smoothed open differs from the one the previous raw
\* candle would give
C20_Witness ==
  /\ probe.fn = "calculateHeikinAshi"
  /\ Len(probe.candles) = 3
  /\ probe.out[3].open # Div(probe.candles[2].open + probe.out[2].close, 2)

\* a raw candle with a range
NonDegenerate(c) == c.high > c.low

\* open + high + low - 3 * close: zero when the close is the mean of the others
Skew(c) == c.open + c.high + c.low - 3 * c.close

\* C21: applying the Heikin-Ashi transform to its own output is not
\* idempotent: for every window with at least 2 non-degenerate candles the
\* result of the second pass differs from the result of the first pass.
C21_NotIdempotent ==
  probe.fn = "calculateHeikinAshi twice"
    /\ Cardinality({i \in DOMAIN probe.candles : NonDegenerate(probe.candles[i])}) >= 2 =>
      probe.again # probe.out

\* C21 amended: for every window with at least 2 non-degenerate candles in
\* which some candle of the first pass has a close that differs (by more than
\* the rounding of a division by 4) from the mean of its open, high and low,
\* the second pass differs from the first; a window whose first-pass candles
\* all have close = (open + high + low) / 3 is returned unchanged by the
\* second pass.
C21_FixedPoints ==
  probe.fn = "calculateHeikinAshi twice" =>
    /\ Cardinality({i \in DOMAIN probe.candles : NonDegenerate(probe.candles[i])}) >= 2
         /\ (\E i \in DOMAIN probe.out : Abs(Skew(probe.out[i])) > 2) =>
           probe.again # probe.out
    /\ (\A i \in DOMAIN probe.out : Skew(probe.out[i]) = 0) =>
           probe.again = probe.out

\* both cases happen: a window of two identical candles with
\* open = close = (high + low) / 2 is a fixed point of the second pass
C21_Witness ==
  /\ probe.fn = "calculateHeikinAshi twice"
  /\ Len(probe.candles) = 2
  /\ probe.candles[1] = probe.candles[2]
  /\ NonDegenerate(probe.candles[1])
  /\ probe.again = probe.out

\* C22: calling an indicator function with a negative period fails fast with
\* an invalid-argument error instead of returning a value.
C22_FailFast ==
  probe.fn = "calculateEMA" /\ probe.period < 0 => probe.threw

\* the step is a run of the callback of the scan timer
IsPoll == scanInterval # <<>> /\ now' # now

\* const elapsed = Date.now() - startTime, in the callback
Elapsed == now' - scanInterval[1].startTime

\* the callback has ended the scan and something is displayed
Ended == ~isScanning' /\ scanInterval' = <<>> /\ displayedAnalysis' # <<>>

\* C23: during a scan no analysis result is displayed before the minimum
\* duration (2000 ms) has elapsed since the scan started, whatever results
\* the tick handler produces in the meantime; a result is accepted at the
\* first poll where a result exists and elapsed >= minDuration, or at the
\* first poll where elapsed >= maxTimeout (5000 ms).
C23_ScanAcceptance ==
  [][/\ scanInterval' # <<>> /\ now' - scanInterval'[1].startTime < minDuration =>
          displayedAnalysis' = <<>>
     /\ IsPoll =>
          /\ Ended <=> \/ latestAnalysisRef # <<>> /\ Elapsed >= minDuration
                       \/ Elapsed >= 5000
          /\ latestAnalysisRef # <<>> /\ Elapsed >= minDuration =>
               displayedAnalysis' = latestAnalysisRef]_vars

\* C23 amended: as C23, with the timeout accepted at the first poll where
\* elapsed > 5000 ms.
C23_ScanAcceptanceStrict ==
  [][/\ scanInterval' # <<>> /\ now' - scanInterval'[1].startTime < minDuration =>
          displayedAnalysis' = <<>>
     /\ IsPoll =>
          /\ Ended <=> \/ latestAnalysisRef # <<>> /\ Elapsed >= minDuration
                       \/ Elapsed > 5000
          /\ latestAnalysisRef # <<>> /\ Elapsed >= minDuration =>
               displayedAnalysis' = latestAnalysisRef]_vars

\* the first scan found no result at its poll at 5000 ms and ended at the
\* next one, 200 ms later
C23_Witness ==
  /\ nscans = 1
  /\ ~isScanning
  /\ now = 5200
  /\ latestAnalysisRef = <<>>
  /\ displayedAnalysis # <<>>

\* C24: every started scan eventually ends, even if the feed never delivers
\* a tick: at the first poll after the safety timeout polling stops,
\* isScanning becomes false and the displayed analysis is non-null: the
\* latest computed result if one exists, the hardcoded fallback only if none
\* exists.
C24_ScanEnds ==
  /\ isScanning ~> ~isScanning
  /\ [][IsPoll /\ Elapsed > 5000 =>
         /\ Ended
         /\ latestAnalysisRef # <<>> => displayedAnalysis' = latestAnalysisRef
         /\ latestAnalysisRef = <<>> =>
              displayedAnalysis' = <<Fallback(scanInterval[1].price)>>]_vars

\* the first scan ended after the timeout on a result that arrived between
\* its last two polls
C24_Witness ==
  /\ nscans = 1
  /\ ~isScanning
  /\ now > 5000
  /\ displayedAnalysis # <<>>
  /\ displayedAnalysis = latestAnalysisRef

\* C25: the connected flag tracks the current socket under every
\* interleaving of open and close events with a change of pair or timeframe:
\* the close event of the socket torn down by a reset never sets the flag to
\* false after the replacement socket has opened, so the flag is false only
\* while the current socket is not open.
C25_ConnectedFlag ==
  ~isConnected => ~(wsRef \in DOMAIN socks /\ socks[wsRef].readyState = "OPEN")

\* C26: every evaluation of analyzeMarket triggered by the tick handler
\* receives between 61 and 101 candles (the 60 bootstrap candles plus one at
\* least), so within a session the latest computed result is never the
\* cold-start result.
C26_EvaluationSizes ==
  /\ \A i \in DOMAIN lastMessage.evals :
       Len(lastMessage.evals[i]) \in (HistoryBars + 1)..(MaxWindow + 1)
  /\ latestAnalysisRef # <<ColdStart>>

\* a tick was evaluated twice: on the full window and on the full window
\* plus the pending candle
C26_Witness ==
  /\ Len(lastMessage.evals) = 2
  /\ Len(lastMessage.evals[1]) = MaxWindow
  /\ Len(lastMessage.evals[2]) = MaxWindow + 1
  /\ latestAnalysisRef # <<>>

\* C27: once a candle is in the window its time, open, high, low and close
\* never change until it is evicted or the aggregator is reset: a step keeps
\* every candle of the window, at its index or, when the oldest candle is
\* evicted, one index lower.
C27_CommittedImmutable ==
  [][wsRef' = wsRef /\ Len(candlesRef) > 0 =>
       LET evicted == IF candlesRef' = candlesRef THEN 0
                      ELSE Len(candlesRef) + 1 - Len(candlesRef')
       IN /\ evicted \in {0, 1}
          /\ \A i \in (evicted + 1)..Len(candlesRef) :
               candlesRef'[i - evicted] = candlesRef[i]]_vars

\* the window is full, bootstrap candles were evicted, and a later tick has
\* moved the pending candle in place
C27_Witness ==
  /\ wsRef \in DOMAIN socks
  /\ Len(candlesRef) = MaxWindow
  /\ nticks > MaxLongTicks
  /\ socks[wsRef].currentAggregatedCandle # <<>>
  /\ LET c == socks[wsRef].currentAggregatedCandle[1]
     IN /\ c.high > c.low
        /\ c.time > Last(candlesRef).time
        /\ c.time < clock \div 1000

\* C28: for every window of length >= 2, the signal returned by
\* analyzeMarket differs from the direction of the colour of the last
\* smoothed candle (green: CALL, red: PUT) only when the tie-break fired:
\* signal # colour direction implies confidence = 45.
C28_OffColour ==
  /\ probe.fn = "analyzeMarket" /\ Len(probe.candles) >= 2 =>
       (probe.out.signal # CandleSignal(Last(calculateHeikinAshi(probe.candles))) =>
          probe.out.confidence = 45)
  /\ probe.fn = "decision" =>
       (probe.out.signal # CandleSignal(probe.currentHa) => probe.out.confidence = 45)

\* a window whose last smoothed candle is red and whose result is a CALL
C28_Witness ==
  /\ probe.fn = "analyzeMarket"
  /\ Len(probe.candles) >= 2
  /\ Last(calculateHeikinAshi(probe.candles)).color = "red"
  /\ probe.out.signal = CALL

\* C29: every result of analyzeMarket, for any window, has a confidence of
\* at least 40: the only possible values are 45, 50 (cold start), the
\* multiples of 5 from 40 to 95, and 99.
C29_ConfidenceValues ==
  IsResult =>
    /\ probe.out.confidence >= 40
    /\ probe.out.confidence \in {45, 50, 99} \cup {5 * n : n \in 8..19}

\* an accumulated confidence between 30 and 40 is raised to 45
C29_Witness ==
  /\ probe.fn = "decision"
  /\ probe.accumulated \in {30, 35}
  /\ probe.out.confidence = 45

\* a MACD that takes no bonus
NoMacd == [value |-> 0, signal |-> 0, histogram |-> 0]

\* what the MACD adds to the confidence of the CALL branch
MacdCall(macd) ==
    CallScore(0, 0, 0, 0, macd, [direction |-> "UP"], TRUE, [hasLowerWick |-> TRUE],
              [color |-> "green"])
  - CallScore(0, 0, 0, 0, NoMacd, [direction |-> "UP"], TRUE, [hasLowerWick |-> TRUE],
              [color |-> "green"])

\* what the MACD adds to the confidence of the PUT branch
MacdPut(macd) ==
    PutScore(0, 0, 0, 0, macd, [direction |-> "UP"], TRUE, [hasUpperWick |-> TRUE],
             [color |-> "red"])
  - PutScore(0, 0, 0, 0, NoMacd, [direction |-> "UP"], TRUE, [hasUpperWick |-> TRUE],
             [color |-> "red"])

\* C30: because histogram = macd.value - macd.signal, the two MACD bonuses
\* are awarded together: in either branch the MACD adds 0 or 15 to the
\* confidence, never 5 or 10 alone.
C30_MacdBonus ==
  probe.fn = "analyzeMarket" =>
    /\ probe.out.macd.histogram = probe.out.macd.value - probe.out.macd.signal
    /\ MacdCall(probe.out.macd) \in {0, 15}
    /\ MacdPut(probe.out.macd) \in {0, 15}

\* a window of the component whose MACD line is above its signal line
C30_Witness ==
  /\ probe.fn = "analyzeMarket"
  /\ Len(probe.candles) > HistoryBars
  /\ probe.out.macd.value > probe.out.macd.signal
  /\ MacdCall(probe.out.macd) = 15

====